---- MODULE Spec2Model ----
(***************************************************************************)
(* A model of rlox, a tree-walking Lox interpreter: the driver (main.rs),  *)
(* the resolver (resolver.rs), the evaluator (interpreter.rs) and the      *)
(* runtime values (types.rs).                                              *)
(*                                                                         *)
(* The evaluator and the resolver are recursive visitors; they are         *)
(* modelled as recursive operators, one per visit_* function, that thread  *)
(* the interpreter (resp. resolver) state through the walk.  The driver is *)
(* the state machine: read, scan, parse, resolve, then one step of the     *)
(* loop of Interpreter::interpret per top-level statement.                 *)
(*                                                                         *)
(* Rc<RefCell<Environment>> handles are indices into st.heap, the shared   *)
(* Rc<RefCell<HashMap>> of an instance's fields is an index into st.flds.  *)
(* A Rust panic (unwrap on None, index out of bounds) and a stack overflow *)
(* are the result kinds "Panic" and "Overflow"; they abort the process.    *)
(***************************************************************************)
EXTENDS Integers, Sequences, FiniteSets, TLC

\* ---------------------------------------------------------------- bounds
\* cap on loop iterations plus user-function calls of one run
MaxFuel == 6
\* most calls of the counter closure in the generated counter programs
MaxCalls == 3
\* deepest nesting of blocks in the generated nesting programs
MaxNest == 3
\* most arguments / parameters in the generated call programs
MaxArgs == 2

\* ------------------------------------------------------------------ maps
EmptyMap == [x \in {} |-> 0]

Has(m, k) == k \in DOMAIN m

Put(m, k, v) == [x \in (DOMAIN m) \cup {k} |-> IF x = k THEN v ELSE m[x]]

\* ---------------------------------------------------------------- values
\* Object (types.rs): every variant is a record of one shape
\*   t tag, n number / boolean / is_init / fields handle, s text or name,
\*   d declaration (function or class) of the AST, c closure handle
Num(x) == [t |-> "Num", n |-> x, s |-> "", d |-> 0, c |-> 0]

\* the f64 values that are no integers: s is "nan", or "inf" with sign n
NaN == [t |-> "Num", n |-> 0, s |-> "nan", d |-> 0, c |-> 0]

Inf(sign) == [t |-> "Num", n |-> sign, s |-> "inf", d |-> 0, c |-> 0]

Str(x) == [t |-> "Str", n |-> 0, s |-> x, d |-> 0, c |-> 0]

Bool(b) == [t |-> "Bool", n |-> IF b THEN 1 ELSE 0, s |-> "", d |-> 0, c |-> 0]

Nil == [t |-> "None", n |-> 0, s |-> "", d |-> 0, c |-> 0]

NativeFunc(name) == [t |-> "NativeFunc", n |-> 0, s |-> name, d |-> 0, c |-> 0]

\* Function { name, is_init, body, params, closure }: body and params are
\* those of declaration d
Function(name, is_init, decl, closure) ==
    [t |-> "Func", n |-> IF is_init THEN 1 ELSE 0, s |-> name, d |-> decl, c |-> closure]

\* LoxClass { name, methods }: the methods are those of class declaration d,
\* each closing over c
LoxClass(name, decl, closure) ==
    [t |-> "Class", n |-> 0, s |-> name, d |-> decl, c |-> closure]

\* LoxInstance { klass, fields }: n is the handle of the shared field map
LoxInstance(klass, fields) ==
    [t |-> "ClassInstance", n |-> fields, s |-> klass.s, d |-> klass.d, c |-> klass.c]

is_truthy(v) ==
    CASE v.t = "Bool" -> v.n = 1
      [] v.t = "None" -> FALSE
      [] OTHER -> TRUE

\* ------------------------------------------------------------------- AST
\* expressions; id is the identity the parser gives a node (get_id)
Literal(v) == [k |-> "Literal", value |-> v]

Grouping(e) == [k |-> "Grouping", expr |-> e]

Unary(op, r) == [k |-> "Unary", operator |-> op, right |-> r]

Binary(l, op, r) == [k |-> "Binary", left |-> l, operator |-> op, right |-> r]

Logical(l, op, r) == [k |-> "Logical", left |-> l, operator |-> op, right |-> r]

Variable(i, name) == [k |-> "Variable", id |-> i, name |-> name]

Assign(i, name, v) == [k |-> "Assign", id |-> i, name |-> name, value |-> v]

Call(callee, args) == [k |-> "Call", calle |-> callee, arguments |-> args]

Get(e, name) == [k |-> "Get", expr |-> e, name |-> name]

Set(e, name, v) == [k |-> "Set", expr |-> e, name |-> name, value |-> v]

This(i) == [k |-> "This", id |-> i, name |-> "this"]

\* statements
ExprStmt(e) == [k |-> "ExprStmt", expr |-> e]

Var(name, init) == [k |-> "Var", name |-> name, has_init |-> TRUE, initializer |-> init]

VarNoInit(name) == [k |-> "Var", name |-> name, has_init |-> FALSE, initializer |-> Literal(Nil)]

Block(stmts) == [k |-> "Block", stmts |-> stmts]

IfStmt(c, t) == [k |-> "If", condition |-> c, then_block |-> t, has_else |-> FALSE, else_block |-> t]

IfElse(c, t, e) == [k |-> "If", condition |-> c, then_block |-> t, has_else |-> TRUE, else_block |-> e]

WhileStmt(c, b) == [k |-> "While", condition |-> c, body |-> b]

\* a function declaration: decl names it in the function values made of it
Func(decl, name, params, body) ==
    [k |-> "Func", decl |-> decl, name |-> name, params |-> params, body |-> body]

ReturnStmt(v) == [k |-> "Return", has_value |-> TRUE, value |-> v]

ReturnNil == [k |-> "Return", has_value |-> FALSE, value |-> Literal(Nil)]

Class(decl, name, methods) == [k |-> "Class", decl |-> decl, name |-> name, methods |-> methods]

\* ----------------------------------------------------------- environment
\* Environment { values, enclosing }; handle 0 is Option::None
Environment(enclosing) == [values |-> EmptyMap, enclosing |-> enclosing]

\* the handle of Interpreter.globals: the first environment ever made
globals == 1

RECURSIVE ancestor(_, _, _)
\* the environment distance parent links above env; 0 when the walk
\* unwraps a missing parent, which panics
ancestor(heap, env, distance) ==
    IF distance = 0 THEN env
    ELSE IF heap[env].enclosing = 0 THEN 0
    ELSE ancestor(heap, heap[env].enclosing, distance - 1)

\* Environment::set, on the environment with handle env
set(heap, env, name, value) ==
    [heap EXCEPT ![env].values = Put(heap[env].values, name, value)]

RECURSIVE assign_owner(_, _, _)
\* Environment::assign: the nearest environment of the chain that holds
\* name, 0 when none does ("Undefined variable.")
assign_owner(heap, env, name) ==
    IF Has(heap[env].values, name) THEN env
    ELSE IF heap[env].enclosing = 0 THEN 0
    ELSE assign_owner(heap, heap[env].enclosing, name)

\* ------------------------------------------------------ interpreter state
\* Interpreter::new; heap, flds and code are the memory its handles point
\* into, the remaining fields record what a run did
InterpreterNew ==
    [heap   |-> << [values |-> Put(Put(Put(EmptyMap, "input", NativeFunc("input")),
                                       "println", NativeFunc("println")),
                                   "print", NativeFunc("print")),
                    enclosing |-> 0] >>,
     flds   |-> << >>,
     code   |-> EmptyMap,
     env    |-> globals,
     locals |-> EmptyMap,
     out    |-> << >>,
     fuel   |-> MaxFuel,
     depth  |-> 0,
     trace  |-> << >>,
     calls  |-> << >>,
     blocks |-> << >>,
     reads  |-> << >>,
     made   |-> << >>,
     assigns |-> << >>,
     props  |-> << >>,
     news   |-> << >>,
     stderr |-> << >>]

\* results of a visit: r is "Ok" with value v (an expression), "None" or
\* "Some" with value v (a statement), "Err" with message v at token tok,
\* "Panic" or "Overflow" (the process aborts), or "Bound" (the run leaves
\* the bounds of the model)
Ok(st, v) == [st |-> st, r |-> "Ok", v |-> v, tok |-> ""]

StmtNone(st) == [st |-> st, r |-> "None", v |-> Nil, tok |-> ""]

StmtSome(st, v) == [st |-> st, r |-> "Some", v |-> v, tok |-> ""]

RuntimeError(st, message, token) == [st |-> st, r |-> "Err", v |-> Str(message), tok |-> token]

Panic(st) == [st |-> st, r |-> "Panic", v |-> Nil, tok |-> ""]

Overflow(st) == [st |-> st, r |-> "Overflow", v |-> Nil, tok |-> ""]

OutOfBound(st) == [st |-> st, r |-> "Bound", v |-> Nil, tok |-> ""]

Abrupt(r) == r \in {"Err", "Panic", "Overflow", "Bound"}

Event(e, depth, v) == [e |-> e, depth |-> depth, v |-> v]

Log(st, e, v) == [st EXCEPT !.trace = Append(@, Event(e, st.depth, v))]

\* --------------------------------------------------------------- equality
\* impl PartialEq for Object, with the derived PartialEq of Function,
\* LoxClass, LoxInstance and Environment behind it.  Rc and RefCell compare
\* what they hold, so a comparison walks environments and field maps; it
\* comes back to a pair it is already comparing exactly when the recursion
\* never ends and the stack overflows ("DIV").  A HashMap is compared entry
\* by entry in an order the hasher picks and stops at the first unequal
\* entry, so the operators give the set of outcomes over all orders.
RECURSIVE ObjectEq(_, _, _, _), EnvironmentEq(_, _, _, _), HashMapEq(_, _, _, _)

HashMapEq(st, m1, m2, seen) ==
    IF Cardinality(DOMAIN m1) # Cardinality(DOMAIN m2) THEN {"F"}
    ELSE LET each == [k \in DOMAIN m1 |->
                        IF Has(m2, k) THEN ObjectEq(st, m1[k], m2[k], seen) ELSE {"F"}]
         IN  (IF \A k \in DOMAIN m1 : "T" \in each[k] THEN {"T"} ELSE {})
             \cup (IF \E k \in DOMAIN m1 : "F" \in each[k] THEN {"F"} ELSE {})
             \cup (IF \E k \in DOMAIN m1 : "DIV" \in each[k] THEN {"DIV"} ELSE {})

\* Option<Rc<RefCell<Environment>>>: values, then enclosing
EnvironmentEq(st, a, b, seen) ==
    IF a = 0 \/ b = 0 THEN (IF a = b THEN {"T"} ELSE {"F"})
    ELSE IF <<"env", a, b>> \in seen THEN {"DIV"}
    ELSE LET seen1 == seen \cup {<<"env", a, b>>}
             vs == HashMapEq(st, st.heap[a].values, st.heap[b].values, seen1)
         IN  (vs \ {"T"}) \cup
             (IF "T" \in vs
              THEN EnvironmentEq(st, st.heap[a].enclosing, st.heap[b].enclosing, seen1)
              ELSE {})

ObjectEq(st, l, r, seen) ==
    IF l.t # r.t THEN {"F"}
    ELSE CASE l.t = "Num" ->
                IF l.s = "nan" \/ r.s = "nan" THEN {"F"}
                ELSE IF l.s = r.s /\ l.n = r.n THEN {"T"} ELSE {"F"}
           [] l.t = "Str" -> IF l.s = r.s THEN {"T"} ELSE {"F"}
           [] l.t = "Bool" -> IF l.n = r.n THEN {"T"} ELSE {"F"}
           [] l.t = "None" -> {"T"}
           [] l.t = "NativeFunc" -> IF l.s = r.s THEN {"T"} ELSE {"F"}
           \* Function: name, body, params, then closure
           [] l.t = "Func" ->
                IF l.s # r.s \/ l.d # r.d THEN {"F"}
                ELSE EnvironmentEq(st, l.c, r.c, seen)
           \* LoxClass: name
           [] l.t = "Class" -> IF l.s = r.s THEN {"T"} ELSE {"F"}
           \* LoxInstance: klass, then fields
           [] l.t = "ClassInstance" ->
                IF l.s # r.s THEN {"F"}
                ELSE IF <<"flds", l.n, r.n>> \in seen THEN {"DIV"}
                ELSE HashMapEq(st, st.flds[l.n], st.flds[r.n],
                               seen \cup {<<"flds", l.n, r.n>>})

\* left == right as one run computes it: where the hasher's order decides
\* between an unequal entry and an endless one, first says which comes first
Equals(st, l, r, first) ==
    LET outs == ObjectEq(st, l, r, {})
    IN  IF "T" \in outs THEN "T"
        ELSE IF outs = {"F", "DIV"} THEN first
        ELSE IF "F" \in outs THEN "F" ELSE "DIV"

\* ------------------------------------------------------------------ state
\* source  the program handed to the driver: whether its file can be read,
\*         whether it scans and parses, and the statements the parser gives
\* hasher  what the run's HashMap hasher decides (see Equals)
\* pc      where main.rs is: "read", "scan", "parse", "resolve",
\*         "interpret", "exit"
\* ip      index of the next top-level statement in Interpreter::interpret
\* st      the Interpreter
\* rs      the Resolver
\* status  the exit status of the process, -1 while it runs
VARIABLES source, hasher, pc, ip, st, rs, status

vars == <<source, hasher, pc, ip, st, rs, status>>

\* -------------------------------------------------------------- evaluator
RECURSIVE accept(_, _), evaluate(_, _), execute(_, _), evaluate_arguments(_, _, _, _),
          run_stmts(_, _, _, _), execute_block(_, _, _, _), call(_, _, _),
          visit_while_stmt(_, _), visit_call(_, _), visit_logical(_, _),
          visit_binary(_, _), visit_unary(_, _), visit_assign(_, _),
          visit_set(_, _), visit_get(_, _), visit_var_stmt(_, _),
          visit_if_stmt(_, _), visit_return_stmt(_, _)

\* a lookup that walks the chain to the nearest frame holding the name, as
\* the commented-out Environment::get did
lookup_frame_nearest(st0, expr) ==
    LET owner == assign_owner(st0.heap, st0.env, expr.name)
    IN  IF owner = 0 THEN globals ELSE owner

\* Interpreter::lookup_variable: the frame the name is read from is the one
\* at the recorded distance, or globals when none is recorded
lookup_frame(st0, expr) ==
    IF Has(st0.locals, expr.id)
    THEN ancestor(st0.heap, st0.env, st0.locals[expr.id])
    ELSE globals

\* what a read leaves in the log of reads
Read(expr, st0, frame, res) ==
    [id |-> expr.id, name |-> expr.name, k |-> expr.k,
     depth |-> IF Has(st0.locals, expr.id) THEN st0.locals[expr.id] ELSE -1,
     env |-> st0.env, frame |-> frame,
     found |-> frame # 0 /\ Has(st0.heap[frame].values, expr.name),
     r |-> res.r, v |-> res.v, tok |-> res.tok]

\* a read that yields nil for a name its frame does not hold
visit_variable_nil(expr, st0) ==
    LET frame == lookup_frame(st0, expr)
        res == IF frame = 0 THEN Panic(st0)
               ELSE IF Has(st0.heap[frame].values, expr.name)
               THEN Ok(st0, st0.heap[frame].values[expr.name])
               ELSE Ok(st0, Nil)
    IN  [res EXCEPT !.st = [st0 EXCEPT !.reads = Append(@, Read(expr, st0, frame, res))]]

\* visit_variable and visit_this, through lookup_variable and get_at
visit_variable(expr, st0) ==
    LET frame == lookup_frame(st0, expr)
        res == IF frame = 0 THEN Panic(st0)
               ELSE IF Has(st0.heap[frame].values, expr.name)
               THEN Ok(st0, st0.heap[frame].values[expr.name])
               ELSE RuntimeError(st0,
                                 IF expr.k = "This" THEN "Undeclared variable this"
                                 ELSE "Undefined variable.", expr.name)
    IN  [res EXCEPT !.st = [st0 EXCEPT !.reads = Append(@, Read(expr, st0, frame, res))]]

\* the two arms of visit_assign once the value is there: assign_at and
\* get_at at the recorded distance, or an insert into globals; insert puts
\* the name into the frame whether or not the frame holds it
assign_value(expr, st1, value) ==
    LET local == Has(st1.locals, expr.id)
        frame == IF local THEN ancestor(st1.heap, st1.env, st1.locals[expr.id]) ELSE globals
        heap1 == IF frame = 0 THEN st1.heap ELSE set(st1.heap, frame, expr.name, value)
        res == IF frame = 0 THEN Panic(st1)
               ELSE Ok([st1 EXCEPT !.heap = heap1], heap1[frame].values[expr.name])
        done == [id |-> expr.id, name |-> expr.name,
                 depth |-> IF local THEN st1.locals[expr.id] ELSE -1,
                 env |-> st1.env, frame |-> frame, before |-> st1.heap,
                 after |-> heap1, value |-> value, r |-> res.r, v |-> res.v]
    IN  [res EXCEPT !.st = [res.st EXCEPT !.assigns = Append(@, done)]]

visit_assign(expr, st0) ==
    LET v == evaluate(expr.value, st0)
    IN  IF Abrupt(v.r) THEN v ELSE assign_value(expr, v.st, v.v)

\* the arithmetic of f64 on the integers; a result that is no integer,
\* infinity or NaN leaves the model
Arithmetic(st0, op, l, r) ==
    IF l.s # "" \/ r.s # "" THEN OutOfBound(st0)
    ELSE CASE op = "MINUS" -> Ok(st0, Num(l.n - r.n))
           [] op = "PLUS" -> Ok(st0, Num(l.n + r.n))
           [] op = "STAR" -> Ok(st0, Num(l.n * r.n))
           [] op = "SLASH" ->
                IF r.n = 0
                THEN Ok(st0, IF l.n = 0 THEN NaN ELSE Inf(IF l.n > 0 THEN 1 ELSE -1))
                ELSE LET a == IF l.n < 0 THEN -l.n ELSE l.n
                         b == IF r.n < 0 THEN -r.n ELSE r.n
                     IN  IF a % b # 0 THEN OutOfBound(st0)
                         ELSE Ok(st0, Num((IF (l.n < 0) = (r.n < 0) THEN 1 ELSE -1) * (a \div b)))
           [] op = "GREATER" -> Ok(st0, Bool(l.n > r.n))
           [] op = "LESS" -> Ok(st0, Bool(l.n < r.n))
           [] op = "GREATEREQUAL" -> Ok(st0, Bool(l.n >= r.n))
           [] op = "LESSEQUAL" -> Ok(st0, Bool(l.n <= r.n))

visit_binary(expr, st0) ==
    LET l == evaluate(expr.left, st0)
    IN  IF Abrupt(l.r) THEN l
        ELSE LET r == evaluate(expr.right, l.st)
                 op == expr.operator
             IN  IF Abrupt(r.r) THEN r
                 ELSE IF op \in {"EQUALEQUAL", "BANGEQUAL"}
                 THEN LET e == Equals(r.st, l.v, r.v, hasher)
                      IN  IF e = "DIV" THEN Overflow(r.st)
                          ELSE Ok(r.st, Bool((e = "T") = (op = "EQUALEQUAL")))
                 ELSE IF op = "PLUS" /\ l.v.t = "Str"
                 THEN IF r.v.t = "Str" THEN Ok(r.st, Str(l.v.s \o r.v.s))
                      ELSE RuntimeError(r.st, "operands must be two strings.", op)
                 ELSE IF l.v.t = "Num" /\ r.v.t = "Num" THEN Arithmetic(r.st, op, l.v, r.v)
                 ELSE RuntimeError(r.st,
                        IF op = "PLUS" /\ l.v.t # "Num"
                        THEN "operands must be two numbers or two strings."
                        ELSE IF op = "LESS" /\ l.v.t # "Num"
                        THEN "operands must be two numberss."
                        ELSE "operands must be two numbers.", op)

visit_unary(expr, st0) ==
    LET r == evaluate(expr.right, st0)
    IN  IF Abrupt(r.r) THEN r
        ELSE IF expr.operator = "MINUS"
        THEN IF r.v.t = "Num"
             THEN (IF r.v.s = "" THEN Ok(r.st, Num(-r.v.n)) ELSE OutOfBound(r.st))
             ELSE RuntimeError(r.st, "operands must be numbers.", "MINUS")
        ELSE Ok(r.st, Bool(~is_truthy(r.v)))

\* visit_logical: both operands are evaluated before the operator is looked at
visit_logical(expr, st0) ==
    LET left == evaluate(expr.left, st0)
    IN  IF Abrupt(left.r) THEN left
        ELSE LET right == evaluate(expr.right, left.st)
             IN  IF Abrupt(right.r) THEN right
                 ELSE IF expr.operator = "OR"
                 THEN (IF is_truthy(left.v) THEN Ok(right.st, left.v) ELSE right)
                 ELSE (IF ~is_truthy(left.v) THEN Ok(right.st, left.v) ELSE right)

\* the arguments of a call, left to right, stopping at the first failure
evaluate_arguments(arguments, i, args, st0) ==
    IF i > Len(arguments) THEN [res |-> Ok(st0, Nil), args |-> args]
    ELSE LET a == evaluate(arguments[i], st0)
         IN  IF Abrupt(a.r) THEN [res |-> a, args |-> args]
             ELSE evaluate_arguments(arguments, i + 1, Append(args, a.v), a.st)

RECURSIVE insert_params(_, _, _, _)
\* the loop of Function::call that inserts params[i] -> arguments[i]
insert_params(params, arguments, i, values) ==
    IF i > Len(params) \/ i > Len(arguments) THEN values
    ELSE insert_params(params, arguments, i + 1, Put(values, params[i], arguments[i]))

\* a call made with the caller's environment as the parent (dynamic scope)
call_enclosing_caller(f, st0) == st0.env

\* the parent of the environment of a call: Some(self.closure.clone())
call_enclosing(f, st0) == f.c

\* Function::call (types.rs).  arguments[i] panics when there are fewer
\* arguments than parameters; surplus arguments are never looked at.
call(f, arguments, st0) ==
    IF st0.fuel = 0 THEN OutOfBound(st0)
    ELSE LET fn == st0.code[f.d]
             env == Len(st0.heap) + 1
             st1 == [st0 EXCEPT
                       !.heap = Append(@, [values |-> insert_params(fn.params, arguments, 1, EmptyMap),
                                           enclosing |-> call_enclosing(f, st0)]),
                       !.fuel = @ - 1]
             ran == Len(arguments) >= Len(fn.params)
             b == IF ran
                  THEN execute_block(fn.body, env, [st1 EXCEPT !.depth = @ + 1], TRUE)
                  ELSE Panic(st1)
             res == IF Abrupt(b.r) THEN b
                    ELSE IF b.r = "Some" THEN Ok(b.st, b.v)
                    ELSE Ok(b.st, Nil)
             done == [decl |-> f.d, is_init |-> f.n = 1, closure |-> f.c, env |-> env,
                      parent |-> st1.heap[env].enclosing, caller |-> st0.env,
                      after |-> res.st.env, r |-> res.r, v |-> res.v,
                      nargs |-> Len(arguments), nparams |-> Len(fn.params), ran |-> ran,
                      this |-> IF Has(st0.heap[f.c].values, "this")
                               THEN st0.heap[f.c].values["this"] ELSE Nil]
         IN  [res EXCEPT !.st = [res.st EXCEPT
                 !.depth = st0.depth,
                 !.calls = Append(@, done),
                 !.trace = IF ran THEN Append(@, Event("exit", st0.depth + 1, res.v)) ELSE @]]

\* NativeFunc::call; standard input is at its end, so read_line reads ""
native_call(f, paren, params, st0) ==
    CASE f.s = "input" ->
           IF Len(params) > 1
           THEN RuntimeError(st0, "expect 0 or 1 arguments", paren)
           ELSE Ok([st0 EXCEPT !.out = IF Len(params) = 1
                                        THEN Append(@, [f |-> "print", params |-> params])
                                        ELSE @], Str(""))
      [] OTHER -> Ok([st0 EXCEPT !.out = Append(@, [f |-> f.s, params |-> params])], Nil)

RECURSIVE find_index(_, _, _)
\* the last method of the list with that name (a later insert into the
\* method table replaces an earlier one), 0 when there is none
find_index(methods, name, i) ==
    IF i = 0 THEN 0
    ELSE IF methods[i].name = name THEN i
    ELSE find_index(methods, name, i - 1)

\* LoxClass::find_method over the table visit_class_stmt builds
find_method(st0, klass, name) ==
    LET methods == st0.code[klass.d].methods
        i == find_index(methods, name, Len(methods))
    IN  IF i = 0 THEN Nil
        ELSE Function(name, name = "init", methods[i].decl, klass.c)

\* Function::bind: the method closing over a new child of its closure that
\* holds this
bind(st0, f, instance) ==
    [st |-> [st0 EXCEPT !.heap = Append(@, [values |-> Put(EmptyMap, "this", instance),
                                            enclosing |-> f.c])],
     f |-> [f EXCEPT !.c = Len(st0.heap) + 1]]

\* what the call of a class leaves in the log of class calls
Instantiated(klass, instance, args, init_method, st1, res) ==
    [res EXCEPT !.st = [res.st EXCEPT !.news = Append(@,
        [klass |-> klass, instance |-> instance,
         nargs |-> Len(args), init |-> init_method.t = "Func",
         nparams |-> IF init_method.t = "Func"
                     THEN Len(st1.code[init_method.d].params) ELSE 0,
         made |-> Len(st1.flds), calls |-> Len(st1.calls),
         r |-> res.r, v |-> res.v])]]

\* the Object::Class arm of visit_call once the arguments are there
instantiate(klass, args, st1) ==
    LET instance == LoxInstance(klass, Len(st1.flds) + 1)
        st2 == [st1 EXCEPT !.flds = Append(@, EmptyMap)]
        init_method == find_method(st2, klass, "init")
    IN  Instantiated(klass, instance, args, init_method, st1,
            IF init_method.t = "Func"
            THEN LET b == bind(st2, init_method, instance)
                     r == call(b.f, args, b.st)
                 IN  IF Abrupt(r.r) THEN r ELSE Ok(r.st, instance)
            ELSE Ok(st2, instance))

visit_call(expr, st0) ==
    LET calle == evaluate(expr.calle, st0)
    IN  IF Abrupt(calle.r) THEN calle
        ELSE IF calle.v.t \in {"Func", "NativeFunc", "Class"}
        THEN LET a == evaluate_arguments(expr.arguments, 1, << >>, calle.st)
             IN  IF Abrupt(a.res.r) THEN a.res
                 ELSE IF calle.v.t = "Func" THEN call(calle.v, a.args, a.res.st)
                 ELSE IF calle.v.t = "NativeFunc"
                 THEN native_call(calle.v, "paren", a.args, a.res.st)
                 ELSE instantiate(calle.v, a.args, a.res.st)
        ELSE RuntimeError(calle.st, "Can only call functions and classes.", "paren")

\* what a Get or Set leaves in the log of property accesses: fields is the
\* field maps before it, after the field maps it leaves
Access(op, name, object, value, fields, res) ==
    [res EXCEPT !.st = [res.st EXCEPT !.props = Append(@,
        [op |-> op, name |-> name, object |-> object, value |-> value,
         fields |-> fields, after |-> res.st.flds, heap |-> res.st.heap,
         r |-> res.r, v |-> res.v, tok |-> res.tok])]]

\* LoxInstance::get, which knows the fields only
instance_get(st1, object, name) ==
    Access("get", name, object, Nil, st1.flds,
           IF Has(st1.flds[object.n], name) THEN Ok(st1, st1.flds[object.n][name])
           ELSE RuntimeError(st1, "Undefined property " \o name, name))

\* a set that inserts into a copy of the field map of the instance
instance_set_copy(st1, object, name, value) ==
    Access("set", name, object, value, st1.flds, Ok(st1, value))

\* LoxInstance::set: an insert into the field map all clones share
instance_set(st1, object, name, value) ==
    Access("set", name, object, value, st1.flds,
           Ok([st1 EXCEPT !.flds[object.n] = Put(@, name, value)], value))

visit_get(expr, st0) ==
    LET left == evaluate(expr.expr, st0)
    IN  IF Abrupt(left.r) THEN left
        ELSE IF left.v.t = "ClassInstance" THEN instance_get(left.st, left.v, expr.name)
        ELSE Access("get", expr.name, left.v, Nil, left.st.flds,
                    RuntimeError(left.st, "Only instances have properties.", expr.name))

\* visit_set: the value is evaluated after the object, and only when the
\* object is an instance
visit_set(expr, st0) ==
    LET left == evaluate(expr.expr, st0)
    IN  IF Abrupt(left.r) THEN left
        ELSE IF left.v.t = "ClassInstance"
        THEN LET v == evaluate(expr.value, left.st)
             IN  IF Abrupt(v.r) THEN v ELSE instance_set(v.st, left.v, expr.name, v.v)
        ELSE Access("set", expr.name, left.v, Nil, left.st.flds,
                    RuntimeError(left.st, "Only instances have properties.", expr.name))

\* Interpreter::evaluate: expr.accept(self)
evaluate(expr, st0) == accept(expr, st0)

RECURSIVE run_stmts_keep(_, _, _, _)
\* the loop of execute_block without self.env = prev after the last statement
run_stmts_keep(stmts, i, st0, prev) ==
    IF i > Len(stmts) THEN StmtNone(st0)
    ELSE LET r == execute(stmts[i], st0)
         IN  IF Abrupt(r.r) THEN r
             ELSE IF r.r = "Some" THEN StmtSome([r.st EXCEPT !.env = prev], r.v)
             ELSE run_stmts_keep(stmts, i + 1, r.st, prev)

\* the loop of execute_block: a failing statement leaves through ? with
\* self.env as it is; a return and the end of the list restore prev first
run_stmts(stmts, i, st0, prev) ==
    IF i > Len(stmts) THEN StmtNone([st0 EXCEPT !.env = prev])
    ELSE LET r == execute(stmts[i], st0)
         IN  IF Abrupt(r.r) THEN r
             ELSE IF r.r = "Some" THEN StmtSome([r.st EXCEPT !.env = prev], r.v)
             ELSE run_stmts(stmts, i + 1, r.st, prev)

\* Interpreter::execute_block; body says whether the statements are a
\* function body (Function::call) or a block (visit_block_stmt)
execute_block(stmts, env, st0, body) ==
    LET prev == st0.env
        r == run_stmts(stmts, 1, [st0 EXCEPT !.env = env], prev)
    IN  [r EXCEPT !.st = [r.st EXCEPT !.blocks = Append(@,
            [prev |-> prev, env |-> env, after |-> r.st.env, how |-> r.r, body |-> body])]]

visit_block_stmt(block, st0) ==
    execute_block(block.stmts, Len(st0.heap) + 1,
                  [st0 EXCEPT !.heap = Append(@, Environment(st0.env))], FALSE)

visit_var_stmt(stmt, st0) ==
    LET value == IF stmt.has_init THEN evaluate(stmt.initializer, st0) ELSE Ok(st0, Nil)
    IN  IF Abrupt(value.r) THEN value
        ELSE StmtNone([value.st EXCEPT !.heap = set(@, value.st.env, stmt.name, value.v)])

visit_expr_stmt(expr, st0) ==
    LET v == evaluate(expr, st0)
    IN  IF Abrupt(v.r) THEN v ELSE StmtNone(v.st)

\* an if statement that runs its branch and drops a propagating return
visit_if_stmt_drop(stmt, st0) ==
    LET c == evaluate(stmt.condition, st0)
        b == IF is_truthy(c.v) THEN execute(stmt.then_block, c.st)
             ELSE IF stmt.has_else THEN execute(stmt.else_block, c.st)
             ELSE StmtNone(c.st)
    IN  IF Abrupt(c.r) THEN c
        ELSE IF b.r = "Some" THEN StmtNone(b.st) ELSE b

visit_if_stmt(stmt, st0) ==
    LET c == evaluate(stmt.condition, st0)
    IN  IF Abrupt(c.r) THEN c
        ELSE IF is_truthy(c.v) THEN execute(stmt.then_block, c.st)
        ELSE IF stmt.has_else THEN execute(stmt.else_block, c.st)
        ELSE StmtNone(c.st)

\* visit_while_stmt; every turn of the loop uses up fuel
visit_while_stmt(stmt, st0) ==
    LET c == evaluate(stmt.condition, Log(st0, "cond", Nil))
    IN  IF Abrupt(c.r) THEN c
        ELSE IF ~is_truthy(c.v) THEN StmtNone(c.st)
        ELSE IF c.st.fuel = 0 THEN OutOfBound(c.st)
        ELSE LET b == execute(stmt.body, [c.st EXCEPT !.fuel = @ - 1])
             IN  IF Abrupt(b.r) \/ b.r = "Some" THEN b
                 ELSE visit_while_stmt(stmt, b.st)

visit_func_stmt(stmt, st0) ==
    LET function == Function(stmt.name, FALSE, stmt.decl, st0.env)
    IN  StmtNone([st0 EXCEPT !.code = Put(@, stmt.decl, stmt),
                             !.heap = set(@, st0.env, stmt.name, function),
                             !.made = Append(@, [decl |-> stmt.decl, env |-> st0.env,
                                                 function |-> function])])

visit_return_stmt(stmt, st0) ==
    LET value == IF stmt.has_value THEN evaluate(stmt.value, st0) ELSE Ok(st0, Nil)
    IN  IF Abrupt(value.r) THEN value
        ELSE StmtSome(Log(value.st, "ret", value.v), value.v)

RECURSIVE method_code(_, _, _)
\* the bodies and parameters the method table of a class holds
method_code(methods, i, code) ==
    IF i > Len(methods) THEN code
    ELSE method_code(methods, i + 1, Put(code, methods[i].decl, methods[i]))

\* visit_class_stmt: the name is set to nil, then assigned the class, whose
\* methods close over the current environment
visit_class_stmt(stmt, st0) ==
    LET heap1 == set(st0.heap, st0.env, stmt.name, Nil)
        klass == LoxClass(stmt.name, stmt.decl, st0.env)
        owner == assign_owner(heap1, st0.env, stmt.name)
        st1 == [st0 EXCEPT !.code = method_code(stmt.methods, 1, Put(@, stmt.decl, stmt)),
                           !.heap = heap1]
    IN  IF owner = 0 THEN RuntimeError(st1, "Undefined variable.", stmt.name)
        ELSE StmtNone([st1 EXCEPT !.heap = set(@, owner, stmt.name, klass)])

\* Interpreter::execute: stmt.accept(self)
execute(stmt, st0) == accept(stmt, Log(st0, "stmt", Nil))

\* Expr::accept and Stmt::accept with the interpreter as the visitor: the
\* visit method of the node's variant
accept(node, st0) ==
    CASE node.k = "Literal" -> Ok(st0, node.value)
      [] node.k = "Grouping" -> evaluate(node.expr, st0)
      [] node.k = "Unary" -> visit_unary(node, st0)
      [] node.k = "Binary" -> visit_binary(node, st0)
      [] node.k = "Logical" -> visit_logical(node, st0)
      [] node.k \in {"Variable", "This"} -> visit_variable(node, st0)
      [] node.k = "Assign" -> visit_assign(node, st0)
      [] node.k = "Call" -> visit_call(node, st0)
      [] node.k = "Get" -> visit_get(node, st0)
      [] node.k = "Set" -> visit_set(node, st0)
      [] node.k = "ExprStmt" -> visit_expr_stmt(node.expr, st0)
      [] node.k = "Var" -> visit_var_stmt(node, st0)
      [] node.k = "Block" -> visit_block_stmt(node, st0)
      [] node.k = "If" -> visit_if_stmt(node, st0)
      [] node.k = "While" -> visit_while_stmt(node, st0)
      [] node.k = "Func" -> visit_func_stmt(node, st0)
      [] node.k = "Return" -> visit_return_stmt(node, st0)
      [] node.k = "Class" -> visit_class_stmt(node, st0)

\* --------------------------------------------------------------- resolver
\* Resolver::new(Vec::new(), &mut interpreter).  locals is the map the
\* resolver fills through Interpreter::resolve, errors what it prints, hits
\* what resolve_local found, spans the scope stack and function context
\* around every function declaration and block, returned what resolve_stmts
\* gave back to run; current_class is the class context of the
\* specification's this rule
ResolverNew ==
    [scopes |-> << >>, current_function |-> "NONE", current_class |-> "NONE",
     locals |-> EmptyMap, errors |-> << >>, hits |-> << >>, spans |-> << >>,
     returned |-> ""]

\* Option<()>: ok is Some(())
Some(rs0) == [rs |-> rs0, ok |-> TRUE]

None(rs0) == [rs |-> rs0, ok |-> FALSE]

Report(rs0, message) == [rs0 EXCEPT !.errors = Append(@, message)]

begin_scope(rs0) == [rs0 EXCEPT !.scopes = Append(@, EmptyMap)]

end_scope(rs0) ==
    [rs0 EXCEPT !.scopes = IF Len(@) = 0 THEN @ ELSE SubSeq(@, 1, Len(@) - 1)]

declare(rs0, name) ==
    LET n == Len(rs0.scopes)
    IN  IF n = 0 THEN Some(rs0)
        ELSE IF Has(rs0.scopes[n], name)
        THEN None(Report(rs0, "Already a variable with this name in this scope."))
        ELSE Some([rs0 EXCEPT !.scopes[n] = Put(@, name, FALSE)])

define(rs0, name) ==
    LET n == Len(rs0.scopes)
    IN  IF n = 0 THEN Some(rs0)
        ELSE Some([rs0 EXCEPT !.scopes[n] = Put(@, name, TRUE)])

RECURSIVE nearest_scope(_, _, _)
\* the loop of resolve_local: the innermost scope that contains name, as an
\* index counted from 0 at the outermost scope; -1 when no scope does
nearest_scope(scopes, name, i) ==
    IF i < 0 THEN -1
    ELSE IF Has(scopes[i + 1], name) THEN i
    ELSE nearest_scope(scopes, name, i - 1)

\* the distance resolve_local hands to Interpreter::resolve
resolve_depth(len, i) == len - 1 + i

resolve_local(rs0, expr) ==
    LET len == Len(rs0.scopes)
        i == nearest_scope(rs0.scopes, expr.name, len - 1)
    IN  IF i < 0
        THEN [rs0 EXCEPT !.hits = Append(@, [id |-> expr.id, len |-> len, i |-> -1, depth |-> -1])]
        ELSE [rs0 EXCEPT !.locals = Put(@, expr.id, resolve_depth(len, i)),
                         !.hits = Append(@, [id |-> expr.id, len |-> len, i |-> i,
                                             depth |-> resolve_depth(len, i)])]

RECURSIVE resolve_stmts(_, _, _), resolve_stmt(_, _), resolve_expr(_, _),
          resolve_arguments(_, _, _), resolve_params(_, _, _), accept_stmt(_, _),
          accept_expr(_, _)

\* resolve_stmt and resolve_expr drop what the visit returns
resolve_stmt(rs0, stmt) == Some(accept_stmt(rs0, stmt).rs)

resolve_expr(rs0, expr) == Some(accept_expr(rs0, expr).rs)

resolve_stmts(rs0, stmts, i) ==
    IF i > Len(stmts) THEN Some(rs0)
    ELSE LET r == resolve_stmt(rs0, stmts[i])
         IN  IF ~r.ok THEN r ELSE resolve_stmts(r.rs, stmts, i + 1)

\* the parameter loop of resolve_fun
resolve_params(rs0, params, i) ==
    IF i > Len(params) THEN Some(rs0)
    ELSE LET d == declare(rs0, params[i])
         IN  IF ~d.ok THEN d
             ELSE resolve_params(define(d.rs, params[i]).rs, params, i + 1)

resolve_fun(rs0, func, t) ==
    LET enclosing == rs0.current_function
        p == resolve_params(begin_scope([rs0 EXCEPT !.current_function = t]), func.params, 1)
    IN  IF ~p.ok THEN p
        ELSE LET b == resolve_stmts(p.rs, func.body, 1)
             IN  IF ~b.ok THEN b
                 ELSE Some([end_scope(b.rs) EXCEPT !.current_function = enclosing])

\* the argument loop of visit_call
resolve_arguments(rs0, arguments, i) ==
    IF i > Len(arguments) THEN Some(rs0)
    ELSE LET r == resolve_expr(rs0, arguments[i])
         IN  IF ~r.ok THEN r ELSE resolve_arguments(r.rs, arguments, i + 1)

\* the two operands of visit_binary and visit_logical
resolve_both(rs0, left, right) ==
    LET l == resolve_expr(rs0, left)
    IN  IF ~l.ok THEN l ELSE resolve_expr(l.rs, right)

resolver_visit_variable(rs0, expr) ==
    LET n == Len(rs0.scopes)
    IN  IF n > 0 /\ Has(rs0.scopes[n], expr.name) /\ rs0.scopes[n][expr.name] = FALSE
        THEN None(Report(rs0, "Can't read local variable in its own initializer."))
        ELSE Some(resolve_local(rs0, expr))

resolver_visit_assign(rs0, expr) ==
    LET v == resolve_expr(rs0, expr.value)
    IN  IF ~v.ok THEN v ELSE Some(resolve_local(v.rs, expr))

\* the rule of the specification for this
resolver_visit_this(rs0, expr) ==
    IF rs0.current_class = "NONE"
    THEN None(Report(rs0, "Can't use this outside of a class."))
    ELSE Some(resolve_local(rs0, expr))

\* impl VisitorE for Resolver
accept_expr(rs0, expr) ==
    CASE expr.k = "Literal" -> Some(rs0)
      [] expr.k \in {"Grouping", "Get"} -> resolve_expr(rs0, expr.expr)
      [] expr.k = "Unary" -> resolve_expr(rs0, expr.right)
      [] expr.k \in {"Binary", "Logical"} -> resolve_both(rs0, expr.left, expr.right)
      [] expr.k = "Variable" -> resolver_visit_variable(rs0, expr)
      [] expr.k = "Assign" -> resolver_visit_assign(rs0, expr)
      [] expr.k = "This" -> resolver_visit_this(rs0, expr)
      [] expr.k = "Set" ->
           Some(resolve_expr(resolve_expr(rs0, expr.value).rs, expr.expr).rs)
      [] expr.k = "Call" ->
           LET c == resolve_expr(rs0, expr.calle)
           IN  IF ~c.ok THEN c ELSE resolve_arguments(c.rs, expr.arguments, 1)

resolver_visit_var_stmt(rs0, stmt) ==
    LET d == declare(rs0, stmt.name)
    IN  IF ~d.ok THEN d ELSE define(d.rs, stmt.name)

\* what the visit of a function declaration or block leaves in spans
Span(k, rs0, r) ==
    [r EXCEPT !.rs = [r.rs EXCEPT !.spans = Append(@,
        [k |-> k, ok |-> r.ok, height |-> Len(rs0.scopes), after |-> Len(r.rs.scopes),
         function |-> rs0.current_function, function_after |-> r.rs.current_function])]]

resolver_visit_block_stmt(rs0, stmt) ==
    LET b == resolve_stmts(begin_scope(rs0), stmt.stmts, 1)
    IN  Span("Block", rs0, IF ~b.ok THEN b ELSE Some(end_scope(b.rs)))

resolver_visit_if_stmt(rs0, stmt) ==
    LET c == resolve_expr(rs0, stmt.condition)
    IN  IF ~c.ok THEN c
        ELSE LET t == resolve_stmt(c.rs, stmt.then_block)
             IN  IF ~t.ok \/ ~stmt.has_else THEN t
                 ELSE resolve_stmt(t.rs, stmt.else_block)

resolver_visit_while_stmt(rs0, stmt) ==
    LET c == resolve_expr(rs0, stmt.condition)
    IN  IF ~c.ok THEN c ELSE resolve_stmt(c.rs, stmt.body)

resolver_visit_func_stmt(rs0, stmt) ==
    LET d == declare(rs0, stmt.name)
    IN  Span("Func", rs0,
             IF ~d.ok THEN d
             ELSE resolve_fun(define(d.rs, stmt.name).rs, stmt, "FUNCTION"))

resolver_visit_return_stmt(rs0, stmt) ==
    IF rs0.current_function = "NONE"
    THEN None(Report(rs0, "Can't return from top-level code."))
    ELSE IF stmt.has_value THEN resolve_expr(rs0, stmt.value)
    ELSE Some(rs0)

resolver_visit_class_stmt(rs0, stmt) ==
    Some(define(declare(rs0, stmt.name).rs, stmt.name).rs)

\* impl VisitorS for Resolver
accept_stmt(rs0, stmt) ==
    CASE stmt.k = "ExprStmt" -> resolve_expr(rs0, stmt.expr)
      [] stmt.k = "Var" -> resolver_visit_var_stmt(rs0, stmt)
      [] stmt.k = "Block" -> resolver_visit_block_stmt(rs0, stmt)
      [] stmt.k = "If" -> resolver_visit_if_stmt(rs0, stmt)
      [] stmt.k = "While" -> resolver_visit_while_stmt(rs0, stmt)
      [] stmt.k = "Func" -> resolver_visit_func_stmt(rs0, stmt)
      [] stmt.k = "Return" -> resolver_visit_return_stmt(rs0, stmt)
      [] stmt.k = "Class" -> resolver_visit_class_stmt(rs0, stmt)

\* --------------------------------------------------------------- programs
\* shorthands for the syntax trees of the programs below
N(x) == Literal(Num(x))

Println(i, e) == ExprStmt(Call(Variable(i, "println"), <<e>>))

PLUS(l, r) == Binary(l, "PLUS", r)

\* scenario 2 of the specification with k calls of the counter:
\*   fun make(){ var i = 0; fun inc(){ i = i + 1; return i; } return inc; }
\*   var c = make(); println(c()); ... println(c());
CounterProgram(k) ==
    << Func(1, "make", << >>,
            << Var("i", N(0)),
               Func(2, "inc", << >>,
                    << ExprStmt(Assign(1, "i", PLUS(Variable(2, "i"), N(1)))),
                       ReturnStmt(Variable(3, "i")) >>),
               ReturnStmt(Variable(4, "inc")) >>),
       Var("c", Call(Variable(5, "make"), << >>)) >>
    \o [j \in 1..k |-> Println(10 + j, Call(Variable(20 + j, "c"), << >>))]

\* a captured variable assigned after the function was made, at the top
\* level (nest = 0) or inside nest blocks:
\*   var x = 1; fun f(){ return x; } x = 10; println(f());
LateBody ==
    << Var("x", N(1)),
       Func(1, "f", << >>, << ReturnStmt(Variable(2, "x")) >>),
       ExprStmt(Assign(1, "x", N(10))),
       Println(3, Call(Variable(4, "f"), << >>)) >>

RECURSIVE Wrap(_, _)
\* stmts inside n blocks
Wrap(stmts, n) == IF n = 0 THEN stmts ELSE << Block(Wrap(stmts, n - 1)) >>

LateProgram(nest) == Wrap(LateBody, nest)

\* g = g + by, with the expression ids i and i + 1
Bump(i, by) == ExprStmt(Assign(i, "g", PLUS(Variable(i + 1, "g"), N(by))))

RECURSIVE ReturnNest(_, _)
\* return 1; inside the composite statements kinds[i..]: 1 a block that
\* goes on with g = g + 1, 2 an if, 3 a while
ReturnNest(kinds, i) ==
    IF i > Len(kinds) THEN ReturnStmt(N(1))
    ELSE CASE kinds[i] = 1 -> Block(<< ReturnNest(kinds, i + 1), Bump(100 + 2 * i, 1) >>)
           [] kinds[i] = 2 -> IfStmt(Literal(Bool(TRUE)), ReturnNest(kinds, i + 1))
           [] kinds[i] = 3 -> WhileStmt(Literal(Bool(TRUE)), ReturnNest(kinds, i + 1))

\* scenario 6 of the specification, the first return nested in kinds:
\*   var g = 0; fun f(){ <nest> g = g + 10; return 2; } { println(f()); }
ReturnProgram(kinds) ==
    << Var("g", N(0)),
       Func(1, "f", << >>, << ReturnNest(kinds, 1), Bump(50, 10), ReturnStmt(N(2)) >>),
       Block(<< Println(60, Call(Variable(61, "f"), << >>)) >>) >>

RECURSIVE KindSeqs(_)
\* the sequences of kinds of length at most n
KindSeqs(n) ==
    IF n = 0 THEN { << >> }
    ELSE KindSeqs(n - 1) \cup { Append(q, k) : q \in { q \in KindSeqs(n - 1) : Len(q) = n - 1 },
                                              k \in 1..3 }

\* the left operands of the logical programs: true, false, nil, 0
LogicLeft(l) ==
    CASE l = 1 -> Literal(Bool(TRUE))
      [] l = 2 -> Literal(Bool(FALSE))
      [] l = 3 -> Literal(Nil)
      [] l = 4 -> N(0)

\* the right operands: an assignment, a read of an undefined variable, a call
LogicRight(r) ==
    CASE r = 1 -> Assign(1, "g", N(1))
      [] r = 2 -> Variable(2, "undefined")
      [] r = 3 -> Call(Variable(3, "h"), << >>)

\*   var g = 0; fun h(){ g = 1; return true; } var r = <left> <op> <right>;
LogicProgram(op, l, r) ==
    << Var("g", N(0)),
       Func(1, "h", << >>, << ExprStmt(Assign(4, "g", N(1))), ReturnStmt(Literal(Bool(TRUE))) >>),
       Var("r", Logical(LogicLeft(l), IF op = 1 THEN "OR" ELSE "AND", LogicRight(r))) >>

\* what the innermost block of a nesting program does with x
NestInner(via) ==
    CASE via = 0 -> << ExprStmt(Assign(1, "x", PLUS(Variable(2, "x"), N(1)))),
                       Println(3, Variable(4, "x")) >>
      [] via = 1 -> << Func(1, "f", << >>, << ReturnStmt(Variable(5, "x")) >>),
                       Println(6, Call(Variable(7, "f"), << >>)) >>
      [] via = 2 -> << Var("y", Variable(8, "x")), Println(9, Variable(10, "y")) >>

RECURSIVE NestBlocks(_, _, _, _)
\* the block at level (0 the outermost) of n nested blocks; the block at
\* level at, or every block when at = n, declares var x = 10 + level
NestBlocks(n, at, via, level) ==
    Block((IF at = level \/ at = n THEN << Var("x", N(10 + level)) >> ELSE << >>)
          \o (IF level = n - 1 THEN NestInner(via)
              ELSE << NestBlocks(n, at, via, level + 1) >>))

\*   var x = 99; { ... { var x = 10 + level; ... { <inner> } } }
NestProgram(n, at, via) == << Var("x", N(99)), NestBlocks(n, at, via, 0) >>

\* a runtime error inside n blocks, raised in the block (via = 0) or in the
\* body of a function called there (via = 1):
\*   { ... { fun f(){ undefined; } f(); } } println(1);
ErrorProgram(n, via) ==
    Wrap(IF via = 0 THEN << ExprStmt(Variable(1, "undefined")) >>
         ELSE << Func(1, "f", << >>, << ExprStmt(Variable(1, "undefined")) >>),
                 ExprStmt(Call(Variable(2, "f"), << >>)) >>, n)
    \o << Println(3, N(1)) >>

\* programs the resolver has or might have something to say about
ResolveProgram(kind) ==
    CASE kind = 1 -> << Block(<< Var("a", N(1)), Var("a", N(2)) >>), Println(1, N(1)) >>
      [] kind = 2 -> << ReturnNil, Println(1, N(1)) >>
      [] kind = 3 -> << Func(1, "f", << "a", "a" >>, << >>), Println(1, N(1)) >>
      [] kind = 4 -> << Block(<< Var("a", Variable(2, "a")) >>), Println(1, N(1)) >>
      [] kind = 5 -> << IfStmt(Literal(Bool(TRUE)), ReturnStmt(N(1))), Println(1, N(1)) >>
      [] kind = 6 -> << Block(<< Var("a", N(1)), ExprStmt(PLUS(Variable(2, "a"), Variable(3, "a"))) >>),
                        Println(1, N(1)) >>
      [] kind = 7 -> << Block(<< Var("a", N(1)), Var("b", Variable(2, "a")),
                                 Println(1, Variable(3, "b")) >>) >>
      [] kind = 8 -> << Func(1, "f", << "a", "a" >>, << >>), ReturnNil, Println(1, N(1)) >>
      [] kind = 9 -> << Block(<< ReturnNil >>), Println(1, N(1)) >>
      [] kind = 10 -> << WhileStmt(Literal(Bool(TRUE)), ReturnNil), Println(1, N(1)) >>
      [] kind = 11 -> << Var("x", N(1)), Var("x", N(2)), Println(1, Variable(2, "x")) >>
      [] kind = 12 -> << Func(1, "f", << "a", "a" >>, << >>),
                         Var("x", N(1)), Var("x", N(2)), Println(1, Variable(2, "x")) >>
      [] kind = 13 -> << Block(<< Func(1, "f", << >>, << >>), Func(2, "f", << >>, << >>) >>),
                         Println(1, N(1)) >>
      [] kind = 14 -> << Println(1, This(2)) >>
      [] kind = 15 -> << Func(1, "f", << >>, << ReturnStmt(This(2)) >>),
                         Println(1, Call(Variable(3, "f"), << >>)) >>
      [] kind = 16 -> << Func(1, "f", << >>, << Block(<< ReturnStmt(N(1)) >>) >>),
                         Block(<< Var("a", Call(Variable(2, "f"), << >>)) >>),
                         Println(1, N(1)) >>

\*   var g = 0; fun f(x1, .., xp){ g = 1; } f(1, .., a);
ArgsProgram(p, a) ==
    << Var("g", N(0)),
       Func(1, "f", [j \in 1..p |-> IF j = 1 THEN "x1" ELSE IF j = 2 THEN "x2" ELSE "x3"],
            << ExprStmt(Assign(1, "g", N(1))) >>),
       ExprStmt(Call(Variable(2, "f"), [j \in 1..a |-> N(j)])) >>

\* the body of init in the class programs
InitBody(kind) ==
    CASE kind = 1 -> << >>
      [] kind = 2 -> << ReturnNil >>
      [] kind = 3 -> << ExprStmt(Assign(1, "g", N(1))), ReturnNil >>
      [] kind = 4 -> << ExprStmt(Set(This(2), "x", N(1))) >>
      [] kind = 5 -> << ReturnStmt(N(1)) >>

\*   var g = 0; class A { init(){ <body> } } var a = A(); println(a);
InitProgram(kind) ==
    << Var("g", N(0)),
       Class(1, "A", << Func(2, "init", << >>, InitBody(kind)) >>),
       Var("a", Call(Variable(3, "A"), << >>)),
       Println(4, Variable(5, "a")) >>

\* the operands of the equality programs
EqOperand(i, x) ==
    CASE x = 1 -> N(1)
      [] x = 2 -> N(2)
      [] x = 3 -> Literal(Str("1"))
      [] x = 4 -> Literal(Bool(TRUE))
      [] x = 5 -> Literal(Bool(FALSE))
      [] x = 6 -> Literal(Nil)
      [] x = 7 -> Variable(i, "f")
      [] x = 8 -> Variable(i, "g")
      [] x = 9 -> Variable(i, "A")
      [] x = 10 -> Variable(i, "B")
      [] x = 11 -> Variable(i, "i1")
      [] x = 12 -> Variable(i, "i2")
      [] x = 13 -> Variable(i, "i3")
      [] x = 14 -> Variable(i, "i4")
      [] x = 15 -> Variable(i, "println")
      [] x = 16 -> Variable(i, "print")
      [] x = 17 -> Binary(N(0), "SLASH", N(0))

\* the operands there are
Operands == 1..17

\*   fun f(){} fun g(){} class A{} class B{}
\*   var i1 = A(); var i2 = A(); var i3 = B(); var i4 = A();
\*   i1.x = 1; i2.x = 1; i3.x = 1; i4.x = 2;
EqPrelude ==
    << Func(1, "f", << >>, << >>), Func(2, "g", << >>, << >>),
       Class(3, "A", << >>), Class(4, "B", << >>),
       Var("i1", Call(Variable(1, "A"), << >>)), Var("i2", Call(Variable(2, "A"), << >>)),
       Var("i3", Call(Variable(3, "B"), << >>)), Var("i4", Call(Variable(4, "A"), << >>)),
       ExprStmt(Set(Variable(5, "i1"), "x", N(1))), ExprStmt(Set(Variable(6, "i2"), "x", N(1))),
       ExprStmt(Set(Variable(7, "i3"), "x", N(1))), ExprStmt(Set(Variable(8, "i4"), "x", N(2))) >>

\*   <prelude> var r = <x> == <y>; var q = <x> != <y>;
EqProgram(x, y) ==
    EqPrelude \o
    << Var("r", Binary(EqOperand(11, x), "EQUALEQUAL", EqOperand(12, y))),
       Var("q", Binary(EqOperand(13, x), "BANGEQUAL", EqOperand(14, y))) >>

\* property reads:
\*   class A { m(){ return 1; } } var a = A(); ... var r = <get>;
GetProgram(kind) ==
    << Class(1, "A", << Func(2, "m", << >>, << ReturnStmt(N(1)) >>) >>),
       Var("a", Call(Variable(1, "A"), << >>)) >>
    \o CASE kind = 1 -> << ExprStmt(Set(Variable(2, "a"), "x", N(5))),
                            Var("r", Get(Variable(3, "a"), "x")) >>
          [] kind = 2 -> << Var("r", Get(Variable(3, "a"), "m")) >>
          [] kind = 3 -> << Var("r", Get(Variable(3, "a"), "nope")) >>
          [] kind = 4 -> << Var("r", Get(N(1), "x")) >>
          [] kind = 5 -> << ExprStmt(Set(Variable(2, "a"), "m", N(7))),
                            Var("r", Get(Variable(3, "a"), "m")) >>

\* property writes seen through another reference:
\*   class A {} fun put(o, v){ o.x = v; } var a = A(); var b = A(); ...
SetProgram(kind) ==
    << Class(1, "A", << >>),
       Func(2, "put", << "o", "v" >>,
            << ExprStmt(Set(Variable(1, "o"), "x", Variable(2, "v"))) >>),
       Var("a", Call(Variable(3, "A"), << >>)),
       Var("b", Call(Variable(4, "A"), << >>)) >>
    \o CASE kind = 1 -> << Var("c", Variable(5, "a")),
                            ExprStmt(Set(Variable(6, "a"), "x", N(1))),
                            Var("r", Get(Variable(7, "c"), "x")) >>
          [] kind = 2 -> << ExprStmt(Call(Variable(5, "put"), << Variable(6, "a"), N(2) >>)),
                            Var("r", Get(Variable(7, "a"), "x")) >>
          [] kind = 3 -> << ExprStmt(Set(Variable(5, "a"), "x", N(3))),
                            ExprStmt(Set(Variable(6, "b"), "x", N(30))),
                            Var("r", Get(Variable(7, "a"), "x")) >>
          [] kind = 4 -> << ExprStmt(Set(Variable(5, "a"), "x", N(1))),
                            Var("c", Variable(6, "a")),
                            ExprStmt(Set(Variable(7, "c"), "x", N(4))),
                            Var("r", Get(Variable(8, "a"), "x")) >>
          [] kind = 5 -> << Var("s", Literal(Str("s"))),
                            Var("r", Set(Variable(5, "s"), "x", N(1))) >>

\* a class called with a arguments, without init (init = 0) or with an init
\* of p parameters:
\*   var g = 0; class A { init(x1, .., xp){ g = 1; } } var a = A(1, .., a);
NewProgram(init, p, a) ==
    << Var("g", N(0)),
       Class(1, "A",
             IF init = 0 THEN << >>
             ELSE << Func(2, "init", [j \in 1..p |-> IF j = 1 THEN "x1" ELSE IF j = 2 THEN "x2" ELSE "x3"],
                          << ExprStmt(Assign(1, "g", N(1))) >>) >>),
       Var("a", Call(Variable(2, "A"), [j \in 1..a |-> N(j)])) >>

\* methods that use this, a parameter and a local:
\*   var g = 0; class A { init(name){ <body> } } var a = A(7); var r = a.name;
MethodProgram(kind) ==
    << Var("g", N(0)),
       Class(1, "A",
             << Func(2, "init", << "name" >>,
                     CASE kind = 1 -> << ExprStmt(Set(This(1), "name", Variable(2, "name"))) >>
                       [] kind = 2 -> << ExprStmt(Assign(1, "g", Variable(2, "name"))) >>
                       [] kind = 3 -> << Var("t", N(7)),
                                         ExprStmt(Assign(1, "g", Variable(2, "t"))) >>) >>),
       Var("a", Call(Variable(3, "A"), << N(7) >>)) >>
    \o (IF kind = 1 THEN << Var("r", Get(Variable(4, "a"), "name")) >> ELSE << >>)

\* the callee of the call of the order programs
OrderCallee(c) ==
    CASE c = 1 -> Variable(1, "f")
      [] c = 2 -> Variable(1, "print")
      [] c = 3 -> Variable(1, "A")
      [] c = 4 -> N(5)
      [] c = 5 -> Literal(Nil)
      [] c = 6 -> Literal(Str("s"))

\* the callees there are
Callees == 1..6

\*   var g = 0; fun f(a, b){} class A {} var r = <callee>(g = g + 1, g = g * 10);
OrderProgram(c) ==
    << Var("g", N(0)),
       Func(1, "f", << "a", "b" >>, << >>),
       Class(2, "A", << >>),
       Var("r", Call(OrderCallee(c),
                     << Assign(2, "g", PLUS(Variable(3, "g"), N(1))),
                        Assign(4, "g", Binary(Variable(5, "g"), "STAR", N(10))) >>)) >>

\* a runtime error after k statements with effects:
\*   var g = 0; g = g + 1; println(g); ... undefined; g = 100; println(100);
StopProgram(k) ==
    << Var("g", N(0)) >>
    \o [j \in 1..(2 * k) |->
          IF j % 2 = 1 THEN ExprStmt(Assign(10 + j, "g", PLUS(Variable(20 + j, "g"), N(1))))
          ELSE Println(10 + j, Variable(20 + j, "g"))]
    \o << ExprStmt(Variable(1, "undefined")),
          ExprStmt(Assign(2, "g", N(100))),
          Println(3, N(100)) >>

\* ----------------------------------------------------------------- driver
Program(name, p, ast) ==
    [name |-> name, p |-> p, readable |-> TRUE, lexes |-> TRUE, parses |-> TRUE, ast |-> ast]

\* sources that cannot be read, scanned or parsed
Unreadable == [Program("unreadable", << >>, << >>) EXCEPT !.readable = FALSE]

Unscannable == [Program("unscannable", << >>, << >>) EXCEPT !.lexes = FALSE]

Unparsable == [Program("unparsable", << >>, << >>) EXCEPT !.parses = FALSE]

Sources ==
    { Unreadable, Unscannable, Unparsable }
    \cup { Program("counter", <<k>>, CounterProgram(k)) : k \in 1..MaxCalls }
    \cup { Program("late", <<n>>, LateProgram(n)) : n \in 0..MaxNest }
    \cup { Program("return", kinds, ReturnProgram(kinds)) : kinds \in KindSeqs(MaxNest) }
    \cup { Program("logic", <<op, l, r>>, LogicProgram(op, l, r)) :
             op \in 1..2, l \in 1..4, r \in 1..3 }
    \cup { Program("nest", <<q[1], q[2], via>>, NestProgram(q[1], q[2], via)) :
             q \in { q \in (1..MaxNest) \X (-1..MaxNest) : q[2] <= q[1] }, via \in 0..2 }
    \cup { Program("error", <<n, via>>, ErrorProgram(n, via)) : n \in 0..MaxNest, via \in 0..1 }
    \cup { Program("resolve", <<k>>, ResolveProgram(k)) : k \in 1..16 }
    \cup { Program("method", <<k>>, MethodProgram(k)) : k \in 1..3 }
    \cup { Program("get", <<k>>, GetProgram(k)) : k \in 1..5 }
    \cup { Program("set", <<k>>, SetProgram(k)) : k \in 1..5 }
    \cup { Program("new", <<q[1], q[2], a>>, NewProgram(q[1], q[2], a)) :
             q \in { q \in (0..1) \X (0..MaxArgs) : q[1] = 1 \/ q[2] = 0 }, a \in 0..MaxArgs }
    \cup { Program("order", <<c>>, OrderProgram(c)) : c \in Callees }
    \cup { Program("stop", <<k>>, StopProgram(k)) : k \in 0..MaxCalls }
    \cup { Program("args", <<p, a>>, ArgsProgram(p, a)) : p \in 0..MaxArgs, a \in 0..MaxArgs }
    \cup { Program("init", <<k>>, InitProgram(k)) : k \in 1..5 }
    \cup { Program("eq", <<x, y>>, EqProgram(x, y)) : x \in Operands, y \in Operands }

Init ==
    /\ source \in Sources
    /\ hasher \in {"F", "DIV"}
    /\ pc = "read"
    /\ ip = 1
    /\ st = InterpreterNew
    /\ rs = ResolverNew
    /\ status = -1

\* run_file: read_to_string(path).unwrap()
ReadFile ==
    /\ pc = "read"
    /\ IF source.readable
       THEN pc' = "scan" /\ status' = status
       ELSE pc' = "exit" /\ status' = 101
    /\ UNCHANGED <<source, hasher, ip, st, rs>>

\* run: Scanner::scan_tokens, None exits with 67
ScanTokens ==
    /\ pc = "scan"
    /\ IF source.lexes
       THEN pc' = "parse" /\ status' = status
       ELSE pc' = "exit" /\ status' = 67
    /\ UNCHANGED <<source, hasher, ip, st, rs>>

\* run: Parser::parse, a failure exits with 67
Parse ==
    /\ pc = "parse"
    /\ IF source.parses
       THEN pc' = "resolve" /\ status' = status
       ELSE pc' = "exit" /\ status' = 67
    /\ UNCHANGED <<source, hasher, ip, st, rs>>

\* run: resolver.resolve_stmts(&mut e), whose result is dropped
Resolve ==
    /\ pc = "resolve"
    /\ LET r == resolve_stmts(ResolverNew, source.ast, 1)
       IN  rs' = [r.rs EXCEPT !.returned = IF r.ok THEN "Some" ELSE "None"]
    /\ st' = [st EXCEPT !.locals = rs'.locals]
    /\ pc' = "interpret"
    /\ UNCHANGED <<source, hasher, ip, status>>

\* an interpret that reports the error and goes on with the next statement
interpret_continue(i) == [pc |-> "interpret", ip |-> i + 1]

\* the Err arm of the loop of interpret, after eprintln: break
interpret_break(i) == [pc |-> "exit", ip |-> i]

\* one turn of the loop of Interpreter::interpret: a runtime error is
\* printed and ends the loop, after which run and main return
Interpret ==
    /\ pc = "interpret"
    /\ ip <= Len(source.ast)
    /\ LET r == execute(source.ast[ip], st)
       IN  CASE r.r = "Err" ->
                  /\ st' = [r.st EXCEPT !.stderr = Append(@, [message |-> r.v.s, token |-> r.tok])]
                  /\ pc' = interpret_break(ip).pc
                  /\ ip' = interpret_break(ip).ip
                  /\ status' = IF pc' = "exit" THEN 0 ELSE status
             [] r.r = "Panic" -> st' = r.st /\ pc' = "exit" /\ status' = 101 /\ ip' = ip
             [] r.r = "Overflow" -> st' = r.st /\ pc' = "exit" /\ status' = 134 /\ ip' = ip
             [] r.r = "Bound" -> st' = r.st /\ pc' = "bound" /\ status' = status /\ ip' = ip
             [] OTHER -> st' = r.st /\ pc' = pc /\ status' = status /\ ip' = ip + 1
    /\ UNCHANGED <<source, hasher, rs>>

\* the loop of interpret is over: run and main return
Finish ==
    /\ pc = "interpret"
    /\ ip > Len(source.ast)
    /\ pc' = "exit"
    /\ status' = 0
    /\ UNCHANGED <<source, hasher, ip, st, rs>>

Next == ReadFile \/ ScanTokens \/ Parse \/ Resolve \/ Interpret \/ Finish

Spec == Init /\ [][Next]_vars

\* ------------------------------------------------------------- properties
\* helpers of the properties
Range(q) == { q[j] : j \in 1..Len(q) }

\* the numbers println printed, one per call with a single number argument
Printed == [j \in 1..Len(st.out) |-> st.out[j].params[1].n]

Global(name) == st.heap[globals].values[name]

Exited == pc = "exit"

\* exit without a reported runtime error, panic or overflow
Clean == pc = "exit" /\ status = 0 /\ st.stderr = << >>

RECURSIVE Links(_, _, _)
\* the number of parent links from environment from up to environment to,
\* -1 when to is not on the chain of from
Links(heap, from, to) ==
    IF from = to THEN 0
    ELSE IF heap[from].enclosing = 0 THEN -1
    ELSE LET up == Links(heap, heap[from].enclosing, to)
         IN  IF up < 0 THEN -1 ELSE up + 1

\* C1: a function made by a FunctionDecl holds the environment current at
\* the declaration; every call runs the body in a new environment whose
\* parent is that closure, not the caller's environment; so a call sees an
\* assignment to a captured variable made after the declaration, and the
\* counter closure yields 1, 2, 3, ...
ClosureCaptured ==
    /\ \A m \in Range(st.made) : m.function.t = "Func" /\ m.function.c = m.env
    /\ \A j \in 1..Len(st.calls) :
         LET c == st.calls[j]
         IN  /\ c.parent = c.closure
             /\ c.env # c.caller
             /\ \A i \in 1..(j - 1) : st.calls[i].env # c.env
    /\ (source.name = "counter" /\ Clean) => Printed = [j \in 1..source.p[1] |-> j]
    /\ (source.name = "late" /\ Clean) => Printed = << 10 >>

\* the counter was called three times from the top level, whose environment
\* is not the closure of the counter
ClosureCapturedWitness ==
    /\ source.name = "counter" /\ Clean /\ Printed = << 1, 2, 3 >>
    /\ \E c \in Range(st.calls) : c.caller # c.closure /\ c.closure # globals /\ c.r = "Ok"

\* C2: once a Return has executed inside a function body, whatever Block,
\* If and While statements surround it, the next thing that happens is the
\* end of the call with the returned value: no statement and no loop
\* condition runs in between; the call leaves the current environment as it
\* was at the call site
ReturnUnwinds ==
    /\ \A j \in 1..Len(st.trace) :
         (st.trace[j].e = "ret" /\ st.trace[j].depth >= 1) =>
             /\ j < Len(st.trace)
             /\ st.trace[j + 1] = Event("exit", st.trace[j].depth, st.trace[j].v)
    /\ \A c \in Range(st.calls) : c.r = "Ok" => c.after = c.caller
    /\ (source.name = "return" /\ Exited) =>
         Clean /\ Printed = << 1 >> /\ Global("g") = Num(0)

\* a return inside a block inside an if inside a while came out of a call
\* made from inside a block
ReturnUnwindsWitness ==
    /\ source.name = "return" /\ source.p = << 3, 2, 1 >> /\ Clean
    /\ \E j \in 1..Len(st.trace) : st.trace[j].e = "ret" /\ st.trace[j].depth = 1
    /\ \E c \in Range(st.calls) : c.caller # globals /\ c.after = c.caller /\ c.v = Num(1)

\* C5: a Variable or This with a recorded depth d is read from the frame
\* exactly d parent links above the current environment, one with no
\* recorded depth is read from globals whatever the chain holds
ReadAtRecordedDepth ==
    /\ \A r \in Range(st.reads) :
         /\ Has(st.locals, r.id) <=> r.depth >= 0
         /\ r.depth >= 0 => st.locals[r.id] = r.depth
         /\ (r.depth >= 0 /\ r.frame # 0) => Links(st.heap, r.env, r.frame) = r.depth
         /\ r.depth < 0 => r.frame = globals
         /\ (r.depth >= 0 /\ r.frame = 0) => Links(st.heap, r.env, globals) < r.depth
    \* every block declares x = 10 + level and the innermost one runs
    \* x = x + 1; println(x);
    /\ (source.name = "nest" /\ source.p[2] = source.p[1] /\ source.p[3] = 0 /\ Clean) =>
         LET level == source.p[1] - 1 - st.locals[4]
         IN  Printed = << (IF level >= 0 THEN 10 + level ELSE 99) + 1 >>
    \* var y = x; println(y); where the initializer has no recorded depth
    /\ (source.name = "nest" /\ source.p[3] = 2 /\ Clean) =>
         ~Has(st.locals, 8) /\ Printed = << 99 >>

\* a read without a recorded depth was made in a block that declares x, and
\* a read at a recorded depth found its name in a frame that is not globals
ReadAtRecordedDepthWitness ==
    /\ source.name = "nest" /\ source.p = << 1, 0, 2 >> /\ Clean
    /\ \E r \in Range(st.reads) : r.depth < 0 /\ r.name = "x" /\ Has(st.heap[r.env].values, "x")
    /\ \E r \in Range(st.reads) : r.depth = 0 /\ r.name = "y" /\ r.found /\ r.frame # globals

\* whether the right operand of the logical program is needed: the left
\* one is falsey under or, truthy under and
RightNeeded == (source.p[1] = 1) = (source.p[2] \in {2, 3})

\* C3: the right operand of a Logical is evaluated, and its side effects
\* (an assignment, a call, a runtime error) happen, only when the left
\* operand does not decide the result
LogicalShortCircuits ==
    (source.name = "logic" /\ Exited) =>
        /\ status = 0
        /\ RightNeeded <=>
             CASE source.p[3] = 1 -> Global("g") = Num(1)
               [] source.p[3] = 2 -> st.stderr # << >>
               [] source.p[3] = 3 -> st.calls # << >>

\* C4: with the scope stack holding len scopes and the nearest scope that
\* contains the name at index i, the depth recorded is len - 1 - i, the
\* number of links from the current environment to the one that holds the
\* binding, so that the read finds the name there; with no such scope no
\* depth is recorded
DepthIsScopeDistance ==
    /\ \A h \in Range(rs.hits) :
         IF h.i >= 0
         THEN h.depth = h.len - 1 - h.i /\ Has(rs.locals, h.id) /\ rs.locals[h.id] = h.depth
         ELSE ~Has(rs.locals, h.id)
    /\ \A r \in Range(st.reads) : r.depth >= 0 => r.frame # 0 /\ r.found

\* C6: when the resolver reported an error, no statement is executed and
\* the exit status is not 0
ResolveErrorHalts ==
    rs.errors # << >> => st.trace = << >> /\ (Exited => status # 0)

\* C7: when a block or a function body ends, normally, by a return or by a
\* runtime error, the current environment is the one from before it
BlockRestoresEnv ==
    \A b \in Range(st.blocks) : b.how \in {"None", "Some", "Err"} => b.after = b.prev

\* C8: a call of a user function with fewer or more arguments than
\* parameters is a runtime error, and the body is not executed
ArityChecked ==
    \A c \in Range(st.calls) : c.nargs # c.nparams => c.r = "Err" /\ ~c.ran

\* C9: a call of an initializer that returns evaluates to the instance
\* bound to this
InitializerYieldsThis ==
    \A c \in Range(st.calls) :
        (c.is_init /\ c.r = "Ok") => c.this.t = "ClassInstance" /\ c.v = c.this

\* C10: == and != raise no runtime error; operands of different variants
\* are unequal; numbers, strings, booleans and nil compare by value;
\* functions, classes and instances compare by identity (every operand of
\* the equality programs but NaN is one value or one handle of its own)
EqualityByValueOrIdentity ==
    (source.name = "eq" /\ Exited /\ source.p[1] # 17 /\ source.p[2] # 17) =>
        /\ Clean
        /\ Global("r") = Bool(source.p[1] = source.p[2])
        /\ Global("q") = Bool(source.p[1] # source.p[2])

\* C11: an Assign with a recorded depth d overwrites the binding the frame
\* d parent links above the current environment already holds, creating no
\* binding and changing no other frame; without a recorded depth it writes
\* the name in globals, creating it if absent; it evaluates to the assigned
\* value.
AssignWritesResolvedFrame ==
    \A a \in Range(st.assigns) :
        /\ a.r = "Ok" /\ a.v = a.value
        /\ IF a.depth >= 0
           THEN /\ a.frame # 0
                /\ Links(a.before, a.env, a.frame) = a.depth
                /\ Has(a.before[a.frame].values, a.name)
                /\ a.after = [a.before EXCEPT ![a.frame].values[a.name] = a.value]
           ELSE /\ a.frame = globals
                /\ a.after = [a.before EXCEPT ![globals].values = Put(@, a.name, a.value)]

\* C12: a Variable whose name the frame selected by the lookup rule does not
\* hold evaluates to no value: it is the runtime error "Undefined variable."
\* carrying the token of the name, which interpret then reports.
UndefinedVariableIsError ==
    /\ \A rd \in Range(st.reads) :
          (rd.k = "Variable" /\ rd.frame # 0 /\ ~rd.found) =>
              rd.r = "Err" /\ rd.v = Str("Undefined variable.") /\ rd.tok = rd.name
    /\ (source.name = "error" /\ source.p[2] = 0 /\ Exited) =>
          /\ st.stderr = << [message |-> "Undefined variable.", token |-> "undefined"] >>
          /\ Printed = << >>

\* a name read at a recorded depth from a frame that lacks it, reported
UndefinedVariableIsErrorWitness ==
    /\ source.name = "late" /\ source.p = << 2 >> /\ Exited
    /\ \E rd \in Range(st.reads) :
          rd.depth >= 0 /\ rd.frame # 0 /\ ~rd.found /\ rd.r = "Err" /\ rd.name = "f"
    /\ st.stderr = << [message |-> "Undefined variable.", token |-> "f"] >>

\* C13: a Get on an instance yields the field of that name if there is one,
\* else the class's method of that name bound to the instance (a function
\* whose closure is a child of the method's closure holding this), else the
\* runtime error "Undefined property"; a Get on anything else is a runtime
\* error.
GetFieldThenMethod ==
    \A a \in Range(st.props) :
        a.op = "get" =>
            IF a.object.t # "ClassInstance" THEN a.r = "Err"
            ELSE IF Has(a.fields[a.object.n], a.name)
            THEN a.r = "Ok" /\ a.v = a.fields[a.object.n][a.name]
            ELSE LET m == find_method(st, a.object, a.name)
                 IN  IF m.t = "Func"
                     THEN /\ a.r = "Ok" /\ a.v.t = "Func" /\ a.v.d = m.d /\ a.v.n = m.n
                          /\ a.v.c \in 1..Len(a.heap)
                          /\ a.heap[a.v.c] = [values |-> Put(EmptyMap, "this", a.object),
                                              enclosing |-> m.c]
                     ELSE a.r = "Err" /\ a.v = Str("Undefined property " \o a.name)

\* the set that a get of the same field of the same instance reads: the last
\* one before it
LastSet(i, j) ==
    /\ i < j
    /\ st.props[i].op = "set" /\ st.props[i].r = "Ok" /\ st.props[j].op = "get"
    /\ st.props[j].object.t = "ClassInstance"
    /\ st.props[i].object.n = st.props[j].object.n
    /\ st.props[i].name = st.props[j].name
    /\ \A k \in (i + 1)..(j - 1) :
          ~(st.props[k].op = "set" /\ st.props[k].r = "Ok"
            /\ st.props[k].object.n = st.props[i].object.n
            /\ st.props[k].name = st.props[i].name)

\* C14: a Set on an instance writes the field of that instance and of no
\* other, evaluates to the value, and every later Get of the field through
\* any reference to the instance (a copy of the variable, an argument)
\* yields it; a Set on anything else is a runtime error.
SetWritesSharedFields ==
    /\ \A a \in Range(st.props) :
          a.op = "set" =>
              IF a.object.t = "ClassInstance"
              THEN /\ a.r = "Ok" /\ a.v = a.value
                   /\ a.after = [a.fields EXCEPT ![a.object.n] = Put(@, a.name, a.value)]
              ELSE /\ a.r = "Err" /\ a.v = Str("Only instances have properties.")
                   /\ a.after = a.fields
    /\ \A j \in 1..Len(st.props) : \A i \in 1..j :
          LastSet(i, j) => st.props[j].r = "Ok" /\ st.props[j].v = st.props[i].value
    /\ (source.name = "set" /\ source.p[1] \in 1..4 /\ Exited) =>
          Clean /\ Global("r") = Num(source.p[1])

\* a field written through a parameter and read through the variable
SetWritesSharedFieldsWitness ==
    /\ source.name = "set" /\ source.p = << 2 >> /\ Clean /\ Global("r") = Num(2)
    /\ \E j \in 1..Len(st.props) : \E i \in 1..j : LastSet(i, j)
    /\ \E c \in Range(st.calls) : c.decl = 2 /\ c.r = "Ok"

\* C15: a call of a class makes a new instance and evaluates to it, after
\* init, if the class has one, was bound to the instance and called with the
\* arguments; the number of arguments must be that of init's parameters, or
\* zero without init, else the call is a runtime error.
ClassCallChecksArity ==
    \A n \in Range(st.news) :
        IF n.nargs = (IF n.init THEN n.nparams ELSE 0)
        THEN n.r = "Ok" =>
                /\ n.v = n.instance /\ n.instance.n = n.made + 1
                /\ n.init => \E j \in (n.calls + 1)..Len(st.calls) :
                                 /\ st.calls[j].this = n.instance
                                 /\ st.calls[j].nargs = n.nargs
        ELSE n.r = "Err"

\* C16: a Call evaluates the callee, then each argument once from left to
\* right, then looks at the callee, whatever the callee is: the arguments
\* of a call of something not callable have been evaluated when the error
\* "Can only call functions and classes." is raised at the paren.
ArgumentsBeforeDispatch ==
    (source.name = "order" /\ Exited) =>
        /\ Global("g") = Num(10)
        /\ source.p[1] >= 4 =>
              st.stderr = << [message |-> "Can only call functions and classes.",
                              token |-> "paren"] >>

\* C17: interpret runs the top-level statements in order; the first runtime
\* error is reported once and ends the run, what was done before it
\* remains.
InterpretStopsAtFirstError ==
    /\ Len(st.stderr) <= 1
    /\ st.stderr # << >> => pc = "exit" /\ ip <= Len(source.ast)
    /\ (source.name = "stop" /\ Exited) =>
          /\ Printed = [j \in 1..source.p[1] |-> j]
          /\ Global("g") = Num(source.p[1])
          /\ ip = 2 * source.p[1] + 2
          /\ st.stderr = << [message |-> "Undefined variable.", token |-> "undefined"] >>

\* two statements with effects, the error, and nothing of what follows it
InterpretStopsAtFirstErrorWitness ==
    /\ source.name = "stop" /\ source.p = << 2 >> /\ Exited
    /\ Printed = << 1, 2 >> /\ Global("g") = Num(2) /\ Len(st.stderr) = 1

\* C18: the exit status is 0 on clean completion, 65 on a parse or resolve
\* error, 67 when the source file cannot be read, 70 after a runtime error.
ExitStatusByOutcome ==
    Exited =>
        /\ ~source.readable => status = 67
        /\ (source.readable /\ source.lexes /\ ~source.parses) => status = 65
        /\ rs.errors # << >> => status = 65
        /\ (rs.errors = << >> /\ st.stderr # << >>) => status = 70
        /\ (rs.errors = << >> /\ st.stderr = << >> /\ source.readable /\ source.lexes
            /\ source.parses /\ ip > Len(source.ast)) => status = 0

\* C19: the resolver declares the name of a VarDecl, resolves the
\* initializer, then defines the name: a Variable in the initializer of a
\* local declaration that names a local gets a depth, so that
\* { var a = 1; var b = a; println(b); } prints 1.
VarInitializerResolved ==
    /\ (source.name = "resolve" /\ source.p = << 7 >> /\ pc \in {"interpret", "exit"}) =>
          /\ Has(rs.locals, 2) /\ rs.locals[2] = 0
          /\ Exited => Clean /\ Printed = << 1 >>
    /\ (source.name = "nest" /\ source.p[3] = 2 /\ source.p[2] >= 0
        /\ pc \in {"interpret", "exit"}) => Has(rs.locals, 8)

\* C20: a Variable naming a local that is declared but not yet defined in
\* the innermost scope, as in { var a = a; }, is reported by the resolver as
\* "Can't read local variable in its own initializer."
SelfInitializerReported ==
    (source.name = "resolve" /\ source.p = << 4 >> /\ pc \in {"interpret", "exit"}) =>
        \E e \in Range(rs.errors) : e = "Can't read local variable in its own initializer."

\* the resolver has run and handed its result to run
Resolved == pc \in {"interpret", "exit"} /\ rs.returned # ""

\* the messages of the resolver
Already == "Already a variable with this name in this scope."

TopLevelReturn == "Can't return from top-level code."

InitializerReturn == "Can't return a value from an initializer."

ThisOutsideClass == "Can't use this outside of a class."

\* C21: the declaration of a variable, function or parameter whose name the
\* innermost scope already holds is reported by the resolver; a
\* redeclaration at global scope is not reported and the later definition
\* replaces the binding in globals
DuplicateDeclarationReported ==
    /\ (source.name = "resolve" /\ source.p[1] \in {1, 3, 13} /\ Resolved) =>
         rs.errors = << Already >>
    \* var x = 1; var x = 2; println(x); alone and after fun f(a, a) {}
    /\ (source.name = "resolve" /\ source.p[1] \in {11, 12} /\ Resolved) =>
         rs.errors = (IF source.p[1] = 12 THEN << Already >> ELSE << >>)
    /\ (source.name = "resolve" /\ source.p[1] = 11 /\ Exited) =>
         Clean /\ Printed = << 2 >> /\ Global("x") = Num(2)

\* C22: every Return outside a function body, also one inside a top-level
\* block, if or loop, is reported as a return from top-level code; a Return
\* inside a function body is not
ReturnOutsideFunctionReported ==
    /\ (source.name = "resolve" /\ source.p[1] \in {2, 5, 8, 9, 10} /\ Resolved) =>
         TopLevelReturn \in Range(rs.errors)
    /\ (source.name \in {"return", "counter", "args"} /\ Resolved) =>
         TopLevelReturn \notin Range(rs.errors)

\* C23: a Return with a value inside a method named init is reported by the
\* resolver, and the program is not evaluated
InitializerReturnReported ==
    (source.name = "init" /\ source.p[1] = 5 /\ Resolved) =>
        InitializerReturn \in Range(rs.errors) /\ st.trace = << >>

\* C24: a this outside every class body is reported by the resolver, and
\* the program is not evaluated
ThisOutsideClassReported ==
    (source.name = "resolve" /\ source.p[1] \in {14, 15} /\ Resolved) =>
        ThisOutsideClass \in Range(rs.errors) /\ st.trace = << >>

\* C25: the resolver gives every this, parameter and local inside a method
\* body a depth, and at run time this inside a method is the instance: an
\* init that stores its argument in a field of this, in a global, or a
\* local in a global, leaves the argument there
MethodBodiesResolved ==
    /\ source.name \in {"method", "init"} =>
         \A r \in Range(st.reads) : r.k = "This" => r.depth >= 0 /\ r.found
    /\ (source.name = "method" /\ Exited) =>
         /\ Clean
         /\ IF source.p[1] = 1 THEN Global("r") = Num(7) ELSE Global("g") = Num(7)

\* C26: where a read or an assignment has a recorded depth d, the chain of
\* the current environment has at least d parent links, and the
\* interpreter does not abort on the way up
DepthWithinChain ==
    /\ \A r \in Range(st.reads) :
         r.depth >= 0 => Links(st.heap, r.env, globals) >= r.depth /\ r.r # "Panic"
    /\ \A a \in Range(st.assigns) :
         a.depth >= 0 => Links(st.heap, a.env, globals) >= a.depth /\ a.r # "Panic"
    /\ (Exited /\ source.readable) => status # 101

\* C27: resolve_stmts gives None back exactly when the resolver reported at
\* least one error, wherever in the program the error is
ResolveFailsIffReported ==
    Resolved => (rs.returned = "None" <=> rs.errors # << >>)

\* C28: around every function declaration and every block, rejected or
\* not, the scope stack has the height and current_function the value they
\* had before
ResolverContextRestored ==
    /\ \A s \in Range(rs.spans) : s.after = s.height /\ s.function_after = s.function
    /\ Resolved => rs.scopes = << >> /\ rs.current_function = "NONE"

\* C29: whenever interpret is about to execute a top-level statement the
\* current environment is globals
TopLevelRunsInGlobals ==
    pc = "interpret" => st.env = globals

\* println(1) is about to run after fun f() { { return 1; } } { var a = f(); }:
\* a block ended by its last statement, a block and a function body by a
\* return
TopLevelRunsInGlobalsWitness ==
    /\ pc = "interpret" /\ ip > 1 /\ ip <= Len(source.ast) /\ st.env = globals
    /\ source.name = "resolve" /\ source.p = << 16 >>
    /\ \E b \in Range(st.blocks) : ~b.body /\ b.env # globals /\ b.how = "None"
    /\ \E b \in Range(st.blocks) : ~b.body /\ b.env # globals /\ b.how = "Some"
    /\ \E b \in Range(st.blocks) : b.body /\ b.env # globals /\ b.how = "Some"

\* C30: == and != of two function values end with a Boolean
FunctionEqualityTerminates ==
    (source.name = "eq" /\ source.p[1] \in {7, 8} /\ source.p[2] \in {7, 8} /\ Exited) =>
        /\ status = 0 /\ st.stderr = << >>
        /\ Global("r").t = "Bool" /\ Global("q").t = "Bool"

====
